---------------------------- MODULE Spec2Model ----------------------------
(***************************************************************************)
(* State-machine model of src/server.py: the process-wide session record   *)
(* esp32_data and the handlers of /upload, /get-audio-stream, /status and  *)
(* /clear, run by concurrently scheduled request threads.  Every read or write of  *)
(* a field of esp32_data is one atomic step; work that touches only the    *)
(* locals of a handler (validation, a collaborator call, resampling) is    *)
(* folded into the step that performs the handler's next access to the     *)
(* record.                                                                 *)
(***************************************************************************)
EXTENDS Integers, Sequences, FiniteSets, TLC

\* ------------------------------------------------------------ bounds ----
\* Requests (of any kind) received over a run; the k-th has request id k.
MaxRequests == 3
\* Largest number of samples the decoder returns.
MaxSamples == 1
\* Longest decoded clip, in samples, of the resampling specification.
MaxDecoded == 5

\* The request threads that run upload_audio; one more thread each runs
\* clear_audio, get_audio_stream and get_status.
Uploaders == {"u1", "u2"}

\* --------------------------------------------------------- constants ----
target_rate == 16000
\* Sample rates the decoder reports: gTTS speech is 24 kHz MP3.
SourceRates == {24000}
\* Sample rates soundfile can report for a decoded file.
DecoderRates == {8000, 11025, 16000, 22050, 24000, 32000, 44100, 48000}

StrongModel == "openai/gpt-oss-120b"
FastModel == "llama-3.1-8b-instant"

\* esp32_data['audio_data'] is None, or holds one byte string.
None == << >>
\* esp32_data['text'] / ['response_text'] == ''; a non-empty text is
\* identified by the id (1..MaxRequests) of the upload that produced it.
EmptyText == 0

\* A byte string of resampled audio: the upload it was synthesised for and
\* its number of int16 samples; the empty byte string is the same whoever
\* made it.  Bytes(None) is what io.BytesIO(None) holds.
EmptyBytes == [req |-> 0, n |-> 0]
AudioBytes(id, n) == IF n = 0 THEN EmptyBytes ELSE [req |-> id, n |-> n]
Bytes(a) == IF a = None THEN EmptyBytes ELSE a[1]

VARIABLES
    client,       \* TRUE iff the Groq client was built (GROQ_API_KEY present)
    esp32_data,   \* the session record
    up,           \* per upload thread: position, locals, response
    clr,          \* the /clear thread
    get,          \* the /get-audio-stream thread
    st,           \* the /status thread
    nextReq,      \* number of requests received so far
    hist          \* what has happened so far (history)

vars == <<client, esp32_data, up, clr, get, st, nextReq, hist>>

\* ------------------------------------------------------ model choice ----
\* Characters a `model` query parameter is made of here.
Lower(c) ==
    CASE c = "G" -> "g" [] c = "P" -> "p" [] c = "T" -> "t"
      [] c = "S" -> "s" [] c = "R" -> "r" [] c = "O" -> "o"
      [] c = "N" -> "n" [] OTHER -> c

IsSpace(c) == c \in {" ", "\t"}

\* str.lower()
StrLower(s) == [i \in 1..Len(s) |-> Lower(s[i])]

\* str.strip()
RECURSIVE LStrip(_)
LStrip(s) == IF s # << >> /\ IsSpace(Head(s)) THEN LStrip(Tail(s)) ELSE s

RECURSIVE RStrip(_)
RStrip(s) ==
    IF s # << >> /\ IsSpace(s[Len(s)]) THEN RStrip(SubSeq(s, 1, Len(s) - 1))
    ELSE s

StrStrip(s) == LStrip(RStrip(s))

StrongNames ==
    { <<"s","t","r","o","n","g">>, <<"g","p","t">>,
      <<"g","p","t","-","o","s","s">> }

\* request.args.get('model'): absent, or the parameter's value.
NoArg == [present |-> FALSE, value |-> << >>]
Arg(s) == [present |-> TRUE, value |-> s]

ModelArgs ==
    { NoArg, Arg(<< >>),
      Arg(<<"s","t","r","o","n","g">>),
      Arg(<<"G","P","T">>),
      Arg(<<" ","g","p","t","-","O","S","S","\t">>),
      Arg(<<"S","t","r","o","n","g"," ">>),
      Arg(<<"g","p","t","o","s","s">>),
      Arg(<<"s","t"," ","r","o","n","g">>),
      Arg(<<"x">>) }

\* (req.args.get('model') or '').lower().strip()
NormalizedArg(a) == StrStrip(StrLower(IF a.present THEN a.value ELSE << >>))

\* The parameter, trimmed and then lower-cased, is one of the strong names.
NamesStrong(a) == a.present /\ StrLower(StrStrip(a.value)) \in StrongNames

choose_model_NoStrip(a) ==
    IF StrLower(IF a.present THEN a.value ELSE << >>) \in StrongNames
    THEN StrongModel ELSE FastModel

choose_model(a) ==
    IF NormalizedArg(a) \in StrongNames THEN StrongModel ELSE FastModel

\* -------------------------------------------------------- resampling ----
PyRound_Truncates(num, den) == num \div den

\* Python 3 round() of the quotient num / den (den > 0): to nearest, ties to
\* the even integer.  The quotient is a double in the code; its error is
\* far below the distance of a non-tie from a half at these lengths, and a
\* tie is computed exactly.
PyRound(num, den) ==
    LET q == num \div den
        r == num % den
    IN  IF 2 * r < den THEN q
        ELSE IF 2 * r > den THEN q + 1
        ELSE IF q % 2 = 0 THEN q ELSE q + 1

\* Lines 520-528: the number of int16 samples stored for `len` decoded
\* samples at `original_rate`; -1 when np.interp raises (no sample points).
ResampledCount(len, original_rate) ==
    IF original_rate # target_rate
    THEN IF len = 0 THEN -1 ELSE PyRound(len * target_rate, original_rate)
    ELSE len

\* Line 528: tobytes() of an int16 array, two bytes a sample.
ByteLength(n) == 2 * n

\* What the handler decoded and the length of the byte string it made of
\* it; kept from line 528 to line 531.
NotDecoded == [len |-> 0, rate |-> 0, bytes |-> 0]

\* ---------------------------------------------------- session record ----
\* Lines 41-47.
InitData ==
    [status |-> "ready", audio_data |-> None, has_audio |-> FALSE,
     text |-> EmptyText, response_text |-> EmptyText]

Phases == {"ready", "processing", "sending_to_esp32"}

\* ------------------------------------------------------ upload_audio ----
AudioFields == {"absent", "empty_name", "ok"}

NoResponse ==
    [code |-> 0, status |-> "", error |-> "", text |-> EmptyText,
     response |-> EmptyText, model |-> ""]

ErrorResponse(code, error) ==
    [NoResponse EXCEPT !.code = code, !.status = "error", !.error = error]

OkResponse(user_text, response_text, selected_model) ==
    [NoResponse EXCEPT !.code = 200, !.status = "ok", !.text = user_text,
                       !.response = response_text, !.model = selected_model]

IdleUpload ==
    [pc |-> "idle", id |-> 0, audio |-> "absent", oversize |-> FALSE,
     want_strong |-> FALSE, selected_model |-> "", chat_model |-> "",
     called |-> FALSE, failed |-> "", resp |-> NoResponse,
     decoded |-> NotDecoded, solo |-> FALSE, snap |-> InitData]

\* A handler thread is between receiving a request and returning.
InFlight(h) == h.pc \notin {"idle", "done"}

NoUploadInFlight == \A p \in Uploaders : ~InFlight(up[p])

\* A step of another thread ends the undisturbed run of an upload thread;
\* the snapshot of the record taken at its start is then dropped.
Disturbed(u) == [u EXCEPT !.solo = FALSE, !.snap = InitData]

OthersDisturbed(p) == [q \in Uploaders |-> IF q = p THEN up[q] ELSE Disturbed(up[q])]

AllDisturbed == [q \in Uploaders |-> Disturbed(up[q])]

\* Lines 459-467: what the checks ahead of the pipeline decide.  request.files
\* is first read at line 462, which raises for a body over MAX_CONTENT_LENGTH.
Validate_FilesFirst(configured, oversize, audio) ==
    IF oversize THEN "raise"
    ELSE IF audio = "absent" THEN "no_file"
    ELSE IF ~configured THEN "not_configured"
    ELSE IF audio = "empty_name" THEN "empty_name"
    ELSE "accept"

Validate_NoClientCheck(configured, oversize, audio) ==
    IF oversize THEN "raise"
    ELSE IF audio = "absent" THEN "no_file"
    ELSE IF audio = "empty_name" THEN "empty_name"
    ELSE "accept"

Validate(configured, oversize, audio) ==
    IF ~configured THEN "not_configured"
    ELSE IF oversize THEN "raise"
    ELSE IF audio = "absent" THEN "no_file"
    ELSE IF audio = "empty_name" THEN "empty_name"
    ELSE "accept"

BeginPipeline_KeepsPhase(d) == d

\* Line 469.
BeginPipeline(d) == [d EXCEPT !.status = "processing"]

StoreText_Skipped(d, user_text) == d

\* Line 481.
StoreText(d, user_text) == [d EXCEPT !.text = user_text]

StoreResponseText_Skipped(d, response_text) == d

\* Line 503.
StoreResponseText(d, response_text) == [d EXCEPT !.response_text = response_text]

\* Line 530.
StoreAudioData(d, raw_audio_bytes) == [d EXCEPT !.audio_data = <<raw_audio_bytes>>]

SetHasAudio_Skipped(d) == d

\* Line 531.
SetHasAudio(d) == [d EXCEPT !.has_audio = TRUE]

\* Line 532.
SetSending(d) == [d EXCEPT !.status = "sending_to_esp32"]

SuccessResponse_FromRecord(u, d) ==
    OkResponse(d.text, d.response_text, u.selected_model)

\* Lines 535-541: the response is built from the handler's locals; the
\* transcript and the reply of upload k are both identified by k.
SuccessResponse(u, d) == OkResponse(u.id, u.id, u.selected_model)

\* Line 545.
OnException_ClearsAudio(d) ==
    [d EXCEPT !.status = "ready", !.has_audio = FALSE, !.audio_data = None]

OnException_NoReset(d) == d

OnException(d) == [d EXCEPT !.status = "ready"]

\* The server hands an upload to the first free upload thread.
FreeThread(p) == ~InFlight(up[p]) /\ (p = "u2") = InFlight(up["u1"])

\* Lines 459-469: the request arrives, is validated and, when accepted,
\* moves the phase to processing.
UploadReceive(p) ==
    /\ FreeThread(p)
    /\ nextReq < MaxRequests
    /\ \E audio \in AudioFields, oversize \in BOOLEAN :
         LET outcome == Validate(client, oversize, audio)
             r == [IdleUpload EXCEPT !.id = nextReq + 1, !.audio = audio,
                                     !.oversize = oversize,
                                     !.solo = TRUE, !.snap = esp32_data]
         IN  /\ up' = [OthersDisturbed(p) EXCEPT ![p] =
                 CASE outcome = "not_configured" ->
                        [r EXCEPT !.pc = "done",
                           !.resp = ErrorResponse(500, "Groq API key not configured")]
                   [] outcome = "raise" ->
                        [r EXCEPT !.pc = "except", !.failed = "parse"]
                   [] outcome = "no_file" ->
                        [r EXCEPT !.pc = "done",
                           !.resp = ErrorResponse(400, "no audio file sent")]
                   [] outcome = "empty_name" ->
                        [r EXCEPT !.pc = "done",
                           !.resp = ErrorResponse(400, "empty file name")]
                   [] OTHER -> [r EXCEPT !.pc = "transcribe"]]
             /\ esp32_data' = IF outcome = "accept" THEN BeginPipeline(esp32_data)
                              ELSE esp32_data
    /\ nextReq' = nextReq + 1
    /\ hist' = [hist EXCEPT !.raced = @ \/ (InFlight(clr) /\ InFlight(up'[p]))]
    /\ clr' = [clr EXCEPT !.solo = FALSE]
    /\ get' = [get EXCEPT !.solo = FALSE]
    /\ UNCHANGED <<client, st>>

\* Lines 471-481: the body is read and transcribed; the transcript is stored.
UploadTranscribe(p) ==
    /\ up[p].pc = "transcribe"
    /\ \/ /\ up' = [OthersDisturbed(p) EXCEPT ![p].pc = "except",
                       ![p].failed = "transcribe", ![p].called = TRUE]
          /\ UNCHANGED esp32_data
       \/ /\ up' = [OthersDisturbed(p) EXCEPT ![p].pc = "chat", ![p].called = TRUE]
          /\ esp32_data' = StoreText(esp32_data, up[p].id)
    /\ clr' = [clr EXCEPT !.solo = FALSE]
    /\ get' = [get EXCEPT !.solo = FALSE]
    /\ UNCHANGED <<client, st, nextReq, hist>>

\* Lines 484-503: the `model` parameter of the request is read and the model
\* chosen, the chat completion is requested with it, and the reply is stored.
\* want_strong records what the parameter asked for.
UploadChat(p) ==
    /\ up[p].pc = "chat"
    /\ \E arg \in ModelArgs :
         LET selected_model == choose_model(arg)
         IN  \/ /\ up' = [OthersDisturbed(p) EXCEPT ![p].pc = "except",
                             ![p].failed = "chat",
                             ![p].want_strong = NamesStrong(arg),
                             ![p].selected_model = selected_model,
                             ![p].chat_model = selected_model]
                /\ UNCHANGED esp32_data
             \/ /\ up' = [OthersDisturbed(p) EXCEPT ![p].pc = "synthesize",
                             ![p].want_strong = NamesStrong(arg),
                             ![p].selected_model = selected_model,
                             ![p].chat_model = selected_model]
                /\ esp32_data' = StoreResponseText(esp32_data, up[p].id)
    /\ clr' = [clr EXCEPT !.solo = FALSE]
    /\ get' = [get EXCEPT !.solo = FALSE]
    /\ UNCHANGED <<client, st, nextReq, hist>>

\* Lines 508-530: speech synthesis, decoding, resampling, and the store of
\* the resampled bytes, for a decoder that yields up to MaxLen samples at a
\* rate of Rates.
Synthesize(p, MaxLen, Rates) ==
    /\ up[p].pc = "synthesize"
    /\ \/ /\ \E stage \in {"tts", "decode"} :
               up' = [OthersDisturbed(p) EXCEPT ![p].pc = "except",
                         ![p].failed = stage]
          /\ UNCHANGED <<esp32_data, hist>>
       \/ \E len \in 0..MaxLen, original_rate \in Rates :
            LET n == ResampledCount(len, original_rate)
                raw_audio_bytes == AudioBytes(up[p].id, n)
            IN  IF n < 0
                THEN /\ up' = [OthersDisturbed(p) EXCEPT ![p].pc = "except",
                                  ![p].failed = "resample",
                                  ![p].decoded = [len |-> len,
                                                  rate |-> original_rate,
                                                  bytes |-> 0]]
                     /\ UNCHANGED <<esp32_data, hist>>
                ELSE /\ up' = [OthersDisturbed(p) EXCEPT ![p].pc = "set_has_audio",
                                  ![p].decoded = [len |-> len,
                                                  rate |-> original_rate,
                                                  bytes |-> ByteLength(n)]]
                     /\ esp32_data' = StoreAudioData(esp32_data, raw_audio_bytes)
                     /\ hist' = [hist EXCEPT !.stored = @ \cup {up[p].id}]
    /\ clr' = [clr EXCEPT !.solo = FALSE]
    /\ get' = [get EXCEPT !.solo = FALSE]
    /\ UNCHANGED <<client, st, nextReq>>

\* gTTS speech, a short 24 kHz clip.
UploadSynthesize(p) == Synthesize(p, MaxSamples, SourceRates)

\* Any decoded file.
UploadSynthesizeAnyRate(p) == Synthesize(p, MaxDecoded, DecoderRates)

\* Line 531.
UploadSetHasAudio(p) ==
    /\ up[p].pc = "set_has_audio"
    /\ up' = [OthersDisturbed(p) EXCEPT ![p].pc = "set_status",
                 ![p].decoded = NotDecoded]
    /\ esp32_data' = SetHasAudio(esp32_data)
    /\ hist' = [hist EXCEPT !.published = TRUE, !.quiet = FALSE, !.reset = FALSE]
    /\ clr' = [clr EXCEPT !.solo = FALSE]
    /\ get' = [get EXCEPT !.solo = FALSE]
    /\ UNCHANGED <<client, st, nextReq>>

\* Lines 532-541: the phase moves on and the success response is returned.
UploadSetStatus(p) ==
    /\ up[p].pc = "set_status"
    /\ up' = [OthersDisturbed(p) EXCEPT ![p].pc = "done",
                 ![p].resp = SuccessResponse(up[p], esp32_data)]
    /\ esp32_data' = SetSending(esp32_data)
    /\ hist' = [hist EXCEPT !.succeeded = TRUE, !.quiet = FALSE]
    /\ clr' = [clr EXCEPT !.solo = FALSE]
    /\ get' = [get EXCEPT !.solo = FALSE]
    /\ UNCHANGED <<client, st, nextReq>>

\* Lines 543-546: the handler of every exception raised inside the try.  What
\* was noted about the model choice is dropped with the failed run.
UploadExcept(p) ==
    /\ up[p].pc = "except"
    /\ up' = [OthersDisturbed(p) EXCEPT ![p].pc = "done",
                 ![p].want_strong = FALSE, ![p].selected_model = "",
                 ![p].chat_model = "", ![p].decoded = NotDecoded,
                 ![p].resp = ErrorResponse(500, "exception")]
    /\ esp32_data' = OnException(esp32_data)
    /\ clr' = [clr EXCEPT !.solo = FALSE]
    /\ get' = [get EXCEPT !.solo = FALSE]
    /\ UNCHANGED <<client, st, nextReq, hist>>

UploadStep(p) ==
    \/ UploadReceive(p)
    \/ UploadTranscribe(p)
    \/ UploadChat(p)
    \/ UploadSynthesize(p)
    \/ UploadSetHasAudio(p)
    \/ UploadSetStatus(p)
    \/ UploadExcept(p)

\* ------------------------------------------------------- clear_audio ----
IdleClear == [pc |-> "idle", solo |-> FALSE, again |-> FALSE]

\* Lines 568-572, one assignment each.
ClearAudioDataField(d) == [d EXCEPT !.audio_data = None]

ClearHasAudioField(d) == [d EXCEPT !.has_audio = FALSE]

ClearTextField_Skipped(d) == d

ClearTextField(d) == [d EXCEPT !.text = EmptyText]

ClearResponseTextField(d) == [d EXCEPT !.response_text = EmptyText]

ClearStatusField(d) == [d EXCEPT !.status = "ready"]

\* Line 568, the first statement of the handler.  `again` records that the
\* request starts right after an undisturbed /clear returned.
ClearAudioData ==
    /\ ~InFlight(clr)
    /\ nextReq < MaxRequests
    /\ nextReq' = nextReq + 1
    /\ clr' = [pc |-> "has_audio", solo |-> TRUE,
               again |-> (clr.pc = "done" /\ clr.solo)]
    /\ esp32_data' = ClearAudioDataField(esp32_data)
    /\ hist' = [hist EXCEPT !.raced = @ \/ ~NoUploadInFlight]
    /\ up' = AllDisturbed
    /\ get' = [get EXCEPT !.solo = FALSE]
    /\ UNCHANGED <<client, st>>

\* Line 569.
ClearHasAudio ==
    /\ clr.pc = "has_audio"
    /\ clr' = [clr EXCEPT !.pc = "text"]
    /\ esp32_data' = ClearHasAudioField(esp32_data)
    /\ hist' = [hist EXCEPT !.reset = TRUE]
    /\ up' = AllDisturbed
    /\ get' = [get EXCEPT !.solo = FALSE]
    /\ UNCHANGED <<client, st, nextReq>>

\* Line 570.
ClearText ==
    /\ clr.pc = "text"
    /\ clr' = [clr EXCEPT !.pc = "response_text"]
    /\ esp32_data' = ClearTextField(esp32_data)
    /\ up' = AllDisturbed
    /\ get' = [get EXCEPT !.solo = FALSE]
    /\ UNCHANGED <<client, st, nextReq, hist>>

\* Line 571.
ClearResponseText ==
    /\ clr.pc = "response_text"
    /\ clr' = [clr EXCEPT !.pc = "status"]
    /\ esp32_data' = ClearResponseTextField(esp32_data)
    /\ up' = AllDisturbed
    /\ get' = [get EXCEPT !.solo = FALSE]
    /\ UNCHANGED <<client, st, nextReq, hist>>

\* Lines 572-573: the last assignment, and the handler returns.
ClearStatus ==
    /\ clr.pc = "status"
    /\ clr' = [clr EXCEPT !.pc = "done"]
    /\ esp32_data' = ClearStatusField(esp32_data)
    /\ hist' = [hist EXCEPT !.quiet = hist.succeeded]
    /\ up' = AllDisturbed
    /\ get' = [get EXCEPT !.solo = FALSE]
    /\ UNCHANGED <<client, st, nextReq>>

ClearStep ==
    \/ ClearAudioData
    \/ ClearHasAudio
    \/ ClearText
    \/ ClearResponseText
    \/ ClearStatus

\* -------------------------------------------------- get_audio_stream ----
IdleGet ==
    [pc |-> "idle", solo |-> FALSE, code |-> 0, error |-> "", body |-> EmptyBytes,
     quiet |-> FALSE, reset |-> FALSE]

NotFound(g) ==
    [g EXCEPT !.pc = "done", !.code = 404, !.error = "No audio available"]

\* Line 551, left operand of `or`: the first statement of the handler.  The
\* request notes hist.quiet and hist.reset as they are when it starts.
GetCheckHasAudio_Ignored(g, d) == [g EXCEPT !.pc = "check_audio_data"]

GetCheckHasAudio(g, d) ==
    IF ~d.has_audio THEN NotFound(g) ELSE [g EXCEPT !.pc = "check_audio_data"]

\* Line 551, right operand of `or`.
GetCheckAudioData_Ignored(g, d) == [g EXCEPT !.pc = "send_file"]

GetCheckAudioData(g, d) ==
    IF d.audio_data = None THEN NotFound(g) ELSE [g EXCEPT !.pc = "send_file"]

\* Lines 554-558.
GetSendFile(g, d) ==
    [g EXCEPT !.pc = "done", !.code = 200, !.body = Bytes(d.audio_data)]

GetStart ==
    /\ ~InFlight(get)
    /\ nextReq < MaxRequests
    /\ nextReq' = nextReq + 1
    /\ get' = GetCheckHasAudio([IdleGet EXCEPT !.solo = TRUE,
                                               !.quiet = hist.quiet,
                                               !.reset = hist.reset],
                               esp32_data)
    /\ up' = AllDisturbed
    /\ clr' = [clr EXCEPT !.solo = FALSE]
    /\ UNCHANGED <<client, st, esp32_data, hist>>

GetSecondCheck ==
    /\ get.pc = "check_audio_data"
    /\ get' = GetCheckAudioData(get, esp32_data)
    /\ up' = AllDisturbed
    /\ clr' = [clr EXCEPT !.solo = FALSE]
    /\ UNCHANGED <<client, st, esp32_data, nextReq, hist>>

GetSend ==
    /\ get.pc = "send_file"
    /\ get' = GetSendFile(get, esp32_data)
    /\ up' = AllDisturbed
    /\ clr' = [clr EXCEPT !.solo = FALSE]
    /\ UNCHANGED <<client, st, esp32_data, nextReq, hist>>

GetStep ==
    \/ GetStart
    \/ GetSecondCheck
    \/ GetSend

\* -------------------------------------------------------- get_status ----
IdleStatus == [pc |-> "idle", esp32_status |-> ""]

StatusBody_Constant(d) == "ready"

\* Line 564: the `esp32_status` field of the response.
StatusBody(d) == d.status

\* Lines 562-564: one read of the record, and the handler returns.
GetStatus ==
    /\ nextReq < MaxRequests
    /\ nextReq' = nextReq + 1
    /\ st' = [pc |-> "done", esp32_status |-> StatusBody(esp32_data)]
    /\ up' = AllDisturbed
    /\ clr' = [clr EXCEPT !.solo = FALSE]
    /\ get' = [get EXCEPT !.solo = FALSE]
    /\ UNCHANGED <<client, esp32_data, hist>>

\* ------------------------------------------------------ specification ----
\* History kept for stating properties; no handler reads it.
\*   stored     ids of the uploads that stored their audio (line 530)
\*   published  some upload has set has_audio (line 531)
\*   succeeded  some upload has returned its success response
\*   quiet      a /clear returned after an upload had succeeded, and since
\*              then no upload has set has_audio or returned success
\*   reset      a /clear has reset has_audio (line 569), and since then no
\*              upload has set it
\*   raced      a /clear and an upload have been in flight at the same time
InitHist ==
    [stored |-> {}, published |-> FALSE, succeeded |-> FALSE, quiet |-> FALSE,
     reset |-> FALSE, raced |-> FALSE]

\* Lines 28-47: the client exists iff GROQ_API_KEY is set; the record holds
\* its defaults; no request has arrived.
Init ==
    /\ client \in BOOLEAN
    /\ esp32_data = InitData
    /\ up = [p \in Uploaders |-> IdleUpload]
    /\ clr = IdleClear
    /\ get = IdleGet
    /\ st = IdleStatus
    /\ nextReq = 0
    /\ hist = InitHist

Next ==
    \/ \E p \in Uploaders : UploadStep(p)
    \/ ClearStep
    \/ GetStep
    \/ GetStatus

Spec == Init /\ [][Next]_vars

\* The steps a handler takes after its request was received: the server
\* keeps running every thread it has started, and each call to Groq, gTTS or
\* soundfile returns or raises.  Requests themselves need never arrive.
UploadContinue(p) ==
    \/ UploadTranscribe(p)
    \/ UploadChat(p)
    \/ UploadSynthesize(p)
    \/ UploadSetHasAudio(p)
    \/ UploadSetStatus(p)
    \/ UploadExcept(p)

ClearContinue == ClearHasAudio \/ ClearText \/ ClearResponseText \/ ClearStatus

Fairness ==
    /\ \A p \in Uploaders : WF_vars(UploadContinue(p))
    /\ WF_vars(ClearContinue)

\* The handlers that write the phase, /upload and /clear, running
\* concurrently and fairly; the two GET handlers write nothing.
WritersNext == (\E p \in Uploaders : UploadStep(p)) \/ ClearStep

FairSpec == Init /\ [][WritersNext]_vars /\ Fairness

\* The resampling of lines 513-528 over every decoded length and rate: one
\* upload at a time, each fed any decoded file.
ResampleNext ==
    \E p \in {"u1"} :
        \/ UploadReceive(p)
        \/ UploadTranscribe(p)
        \/ UploadChat(p)
        \/ UploadSynthesizeAnyRate(p)
        \/ UploadSetHasAudio(p)
        \/ UploadSetStatus(p)
        \/ UploadExcept(p)

ResampleSpec == Init /\ [][ResampleNext]_vars

\* ---------------------------------------------------------- properties ----
\* The steps of the pipeline that can raise once the phase is processing.
PipelineSteps == {"transcribe", "chat", "tts", "decode", "resample"}


\* The upload each artifact of the record comes from (0: none).
TextOf(d) == d.text
ResponseOf(d) == d.response_text
AudioOf(d) == IF d.audio_data = None THEN 0 ELSE d.audio_data[1].req

\* The three artifacts do not come from one upload.
Mixed(d) == ~(TextOf(d) = ResponseOf(d) /\ ResponseOf(d) = AudioOf(d))

\* Some upload was received while another one was in flight: the second
\* thread is only handed a request when the first is busy.
Overlapped == \E p \in Uploaders : p # "u1" /\ up[p].pc # "idle"

\* C1: an upload whose pipeline raised after the phase was set to processing,
\* and that ran with no step of any other request in between, leaves
\* phase = ready and has_audio as it was just before the upload was received.
C1_FailedRunResetsPhase ==
    \A p \in Uploaders :
        (up[p].pc = "done" /\ up[p].solo /\ up[p].failed \in PipelineSteps)
            => /\ esp32_data.status = "ready"
               /\ esp32_data.has_audio = up[p].snap.has_audio

\* A failed, undisturbed upload that started while audio of an earlier upload
\* was being offered.
C1_Witness ==
    \E p \in Uploaders :
        /\ up[p].pc = "done" /\ up[p].solo /\ up[p].failed \in PipelineSteps
        /\ up[p].snap.has_audio /\ up[p].snap.status = "sending_to_esp32"

\* C2: whenever no /upload handler is in flight, phase is not processing.
C2_NoStuckProcessing ==
    NoUploadInFlight => esp32_data.status # "processing"

\* Two uploads and a clear have all returned, one upload having failed in
\* the pipeline and the other having succeeded.
C2_Witness ==
    /\ NoUploadInFlight
    /\ \E p, q \in Uploaders :
         up[p].failed \in PipelineSteps /\ up[q].resp.code = 200
    /\ clr.pc = "done"

\* C3: in every reachable state, has_audio implies that audio_data is present
\* and non-empty.
C3_HasAudioImpliesBuffer ==
    esp32_data.has_audio =>
        esp32_data.audio_data # None /\ Bytes(esp32_data.audio_data).n > 0

\* C4: the bytes /get-audio-stream returns with HTTP 200 are the buffer stored
\* by some upload run that did not fail.
C4_ServedBytesWereStored ==
    (get.pc = "done" /\ get.code = 200) => get.body.req \in hist.stored

\* C5: a /clear that ran with no step of any other request in between leaves
\* the record with exactly its cleared values, whatever it started from; so
\* does a second /clear that follows it directly.
C5_ClearResetsEverything ==
    (clr.pc = "done" /\ clr.solo) => esp32_data = InitData

\* An undisturbed /clear that directly followed an undisturbed /clear, after
\* an upload had succeeded.
C5_Witness ==
    clr.pc = "done" /\ clr.solo /\ clr.again /\ hist.succeeded

\* C6 as claimed: a /get-audio-stream that starts once a /clear has returned
\* after a successful upload, and before any upload has since set has_audio
\* or returned success, answers 404.
C6_NotFoundAfterClearReturned ==
    (get.pc = "done" /\ get.quiet) => get.code = 404

\* C6 as amended: a /get-audio-stream that starts once a /clear has reset
\* has_audio, and before any upload has since set has_audio, answers 404.
C6_NotFoundAfterClearReset ==
    (get.pc = "done" /\ get.reset) => get.code = 404

\* A request answered 404 that started after an upload had succeeded and a
\* /clear had then reset has_audio.
C6_Witness ==
    get.pc = "done" /\ get.reset /\ hist.succeeded /\ clr.pc = "done"

C8_NoFileIs400 ==
    \A p \in Uploaders :
        (up[p].pc = "done" /\ up[p].audio = "absent")
            => up[p].resp.code = 400 /\ up[p].resp.status = "error"

\* C8 as amended: an upload without an `audio` field is answered with 400 and
\* status 'error' when the client is configured and the body is within the
\* size limit; with no client it is answered 500 'not configured', and with
\* an oversized body 500 from the exception handler.
C8_NoFileIs400WhenConfigured ==
    \A p \in Uploaders :
        (up[p].pc = "done" /\ up[p].audio = "absent")
            => /\ up[p].resp.status = "error"
               /\ up[p].resp.code =
                    IF client /\ ~up[p].oversize THEN 400 ELSE 500
               /\ ~client => up[p].resp.error = "Groq API key not configured"

\* A 400 for a missing file, answered while audio is being offered.
C8_Witness ==
    \E p \in Uploaders :
        /\ up[p].pc = "done" /\ up[p].audio = "absent" /\ up[p].resp.code = 400
        /\ esp32_data.status = "sending_to_esp32" /\ esp32_data.has_audio

\* C9: with no client, every upload is answered 500 / 'error' / 'Groq API key
\* not configured' without any collaborator having been called, and no step
\* of an upload handler changes the session record.
C9_NotConfigured ==
    /\ [](~client =>
            \A p \in Uploaders :
                /\ up[p].pc \in {"idle", "done"}
                /\ ~up[p].called
                /\ up[p].pc = "done" =>
                     up[p].resp = ErrorResponse(500, "Groq API key not configured"))
    /\ [][(~client /\ \E p \in Uploaders : UploadStep(p))
            => UNCHANGED esp32_data]_vars

\* With no client, a well-formed upload has been answered 500.
C9_Witness ==
    /\ ~client
    /\ \E p \in Uploaders :
         up[p].pc = "done" /\ up[p].audio = "ok" /\ ~up[p].oversize
         /\ up[p].resp.code = 500

\* C10: the model passed to the chat completion is the strong model exactly
\* when the `model` parameter, trimmed and lower-cased, is strong, gpt or
\* gpt-oss, and the fast model otherwise; the success response reports it.
C10_ModelChoice ==
    \A p \in Uploaders :
        /\ up[p].chat_model # "" =>
             up[p].chat_model = (IF up[p].want_strong THEN StrongModel
                                 ELSE FastModel)
        /\ (up[p].pc = "done" /\ up[p].resp.code = 200) =>
             up[p].resp.model # "" /\ up[p].resp.model = up[p].chat_model

\* Two successful uploads, one answered with the strong and one with the
\* fast model.
C10_Witness ==
    \E p, q \in Uploaders :
        /\ up[p].pc = "done" /\ up[p].resp.code = 200
        /\ up[p].resp.model = StrongModel
        /\ up[q].pc = "done" /\ up[q].resp.code = 200
        /\ up[q].resp.model = FastModel

\* C11: nothing serialises uploads, so two uploads in flight at once can
\* leave, after both handlers returned, a record whose transcript, reply
\* and audio do not come from the same upload (C11_Witness is that state).
\* What bounds the race: with both uploads answered 200 and no /clear, each
\* artifact is the whole artifact of one of the two; and artifacts of
\* different successful uploads only meet when uploads overlapped.
C11_LostUpdateNeedsOverlap ==
    /\ ( /\ \A p \in Uploaders : up[p].pc = "done" /\ up[p].resp.code = 200
         /\ clr.pc = "idle" )
       => LET ids == {up[p].id : p \in Uploaders}
          IN  /\ TextOf(esp32_data) \in ids
              /\ ResponseOf(esp32_data) \in ids
              /\ AudioOf(esp32_data) \in ids
    /\ ( /\ {TextOf(esp32_data), ResponseOf(esp32_data),
              AudioOf(esp32_data)} \subseteq hist.stored
         /\ Mixed(esp32_data) )
       => Overlapped

\* Both uploads have returned 200, nothing else ran, and the record holds
\* the transcript of one next to the audio of the other.
C11_Witness ==
    /\ \A p \in Uploaders : up[p].pc = "done" /\ up[p].resp.code = 200
    /\ clr.pc = "idle" /\ get.pc = "idle" /\ st.pc = "idle"
    /\ \E p, q \in Uploaders :
         /\ p # q
         /\ TextOf(esp32_data) = up[p].id
         /\ AudioOf(esp32_data) = up[q].id

\* C12: every change of phase is a row of the transition table: to
\* processing when an upload starts its pipeline, from processing to
\* sending_to_esp32 when a pipeline succeeds, from processing to ready when
\* a pipeline step fails, and to ready on /clear.
C12_PhaseChangesFollowTable ==
    [][ esp32_data'.status # esp32_data.status =>
          \/ /\ \E p \in Uploaders : UploadReceive(p)
             /\ esp32_data'.status = "processing"
          \/ /\ \E p \in Uploaders : UploadSetStatus(p)
             /\ esp32_data.status = "processing"
             /\ esp32_data'.status = "sending_to_esp32"
          \/ /\ \E p \in Uploaders :
                   UploadExcept(p) /\ up[p].failed \in PipelineSteps
             /\ esp32_data.status = "processing"
             /\ esp32_data'.status = "ready"
          \/ /\ ClearStatus
             /\ esp32_data'.status = "ready" ]_vars

\* C12 as amended: phase is written by four statements only, line 469 (to
\* processing), line 532 (to sending_to_esp32), line 545 and line 572 (to
\* ready); an upload that ran with no other request interleaved finds
\* processing at its line 532, and at its line 545 if a pipeline step failed.
C12_PhaseChangesOfUndisturbedUploads ==
    [][ esp32_data'.status # esp32_data.status =>
          \/ /\ \E p \in Uploaders : UploadReceive(p)
             /\ esp32_data'.status = "processing"
          \/ /\ esp32_data'.status = "sending_to_esp32"
             /\ \E p \in Uploaders :
                   /\ UploadSetStatus(p)
                   /\ up[p].solo => esp32_data.status = "processing"
          \/ /\ esp32_data'.status = "ready"
             /\ \E p \in Uploaders :
                   /\ UploadExcept(p)
                   /\ (up[p].solo /\ up[p].failed \in PipelineSteps)
                        => esp32_data.status = "processing"
          \/ /\ ClearStatus
             /\ esp32_data'.status = "ready" ]_vars

\* An undisturbed upload, received in phase sending_to_esp32, has succeeded
\* and left the phase at sending_to_esp32 again.
C12_Witness ==
    \E p \in Uploaders :
        /\ up[p].pc = "done" /\ up[p].solo /\ up[p].resp.code = 200
        /\ up[p].snap.status = "sending_to_esp32"
        /\ esp32_data.status = "sending_to_esp32"

\* C13: an upload that failed in a pipeline step, with no other request
\* interleaved, leaves text, response_text, audio_data and has_audio as they
\* were when it was received.
C13_FailedRunKeepsArtifacts ==
    \A p \in Uploaders :
        (up[p].pc = "done" /\ up[p].solo /\ up[p].failed \in PipelineSteps)
        => /\ esp32_data.text = up[p].snap.text
           /\ esp32_data.response_text = up[p].snap.response_text
           /\ esp32_data.audio_data = up[p].snap.audio_data
           /\ esp32_data.has_audio = up[p].snap.has_audio

\* C14: GET /status and GET /get-audio-stream leave every field of the
\* record unchanged (serving the audio neither consumes it nor moves the
\* phase); the phase is written by /upload and /clear only; and GET /status
\* reports exactly the current phase.
C14_ReadsLeaveRecord ==
    [][ /\ (GetStep \/ GetStatus) => UNCHANGED esp32_data
        /\ esp32_data'.status # esp32_data.status =>
              (\E p \in Uploaders : UploadStep(p)) \/ ClearStep
        /\ GetStatus => /\ st'.esp32_status = esp32_data.status
                        /\ st'.esp32_status = esp32_data'.status ]_vars

\* The audio has been served and the phase reported as sending_to_esp32,
\* and the record still holds the audio in that phase.
C14_Witness ==
    /\ get.pc = "done" /\ get.code = 200
    /\ st.pc = "done" /\ st.esp32_status = "sending_to_esp32"
    /\ esp32_data.status = "sending_to_esp32"
    /\ esp32_data.has_audio /\ esp32_data.audio_data # None
    /\ get.body = Bytes(esp32_data.audio_data)

\* C15: a successful upload with no other request interleaved, from any
\* prior state, ends with phase sending_to_esp32, has_audio true and the
\* transcript, reply and audio of that same upload in the record, and is
\* answered 200 with status ok and the same transcript and reply.
C15_UndisturbedSuccess ==
    \A p \in Uploaders :
        (up[p].pc = "done" /\ up[p].solo /\ up[p].resp.code = 200)
        => /\ esp32_data.status = "sending_to_esp32"
           /\ esp32_data.has_audio
           /\ TextOf(esp32_data) = up[p].id
           /\ ResponseOf(esp32_data) = up[p].id
           /\ esp32_data.audio_data # None
           /\ AudioOf(esp32_data) = up[p].id
           /\ up[p].resp.status = "ok"
           /\ up[p].resp.text = esp32_data.text
           /\ up[p].resp.response = esp32_data.response_text

\* An undisturbed upload has succeeded over the complete artifacts of an
\* earlier upload.
C15_Witness ==
    \E p \in Uploaders :
        /\ up[p].pc = "done" /\ up[p].solo /\ up[p].resp.code = 200
        /\ up[p].snap.has_audio /\ up[p].snap.text # EmptyText
        /\ up[p].snap.response_text # EmptyText
        /\ up[p].snap.status = "sending_to_esp32"

\* C16: when every started handler keeps taking its steps, every state with
\* phase processing is eventually followed by one with phase ready or
\* sending_to_esp32, whatever uploads and clears run concurrently.
C16_ProcessingEnds ==
    (esp32_data.status = "processing")
        ~> (esp32_data.status \in {"ready", "sending_to_esp32"})

\* Phase processing with two uploads and a /clear in flight at once.
C16_Witness ==
    /\ esp32_data.status = "processing"
    /\ \A p \in Uploaders : InFlight(up[p])
    /\ InFlight(clr)

\* n is num / den rounded to the nearest integer, a tie going to the even
\* one, as Python 3 rounds.
IsRounded(n, num, den) ==
    LET twice == 2 * (IF n * den >= num THEN n * den - num ELSE num - n * den)
    IN  /\ twice <= den
        /\ twice = den => n % 2 = 0

\* C17: L >= 1 decoded samples at rate Rs > 0 are resampled without error
\* to exactly round(L * 16000 / Rs) 16-bit samples, two bytes each, when
\* Rs # 16000, and to exactly L samples when Rs = 16000.
C17_ResampledSampleCount ==
    \A p \in Uploaders :
        LET L == up[p].decoded.len
            Rs == up[p].decoded.rate
        IN  L >= 1 =>
              /\ up[p].pc = "set_has_audio"
              /\ \E n \in 0..(3 * L) :
                    /\ up[p].decoded.bytes = 2 * n
                    /\ IF Rs = target_rate THEN n = L
                       ELSE IsRounded(n, L * target_rate, Rs)
                    /\ up[p].solo => Bytes(esp32_data.audio_data).n = n

\* Five samples at 32 kHz, a tie at 2.5, have been stored as two samples.
C17_Witness ==
    \E p \in Uploaders :
        /\ up[p].pc = "set_has_audio"
        /\ up[p].decoded = [len |-> 5, rate |-> 32000, bytes |-> 4]
        /\ Bytes(esp32_data.audio_data) = AudioBytes(up[p].id, 2)

\* No handler is between receiving its request and returning.
Quiescent == NoUploadInFlight /\ ~InFlight(clr) /\ ~InFlight(get)

\* What GET /get-audio-stream answers when it runs on record d with nothing
\* in between.
AnswerOn(d) ==
    LET g1 == GetCheckHasAudio(IdleGet, d)
        g2 == IF g1.pc = "done" THEN g1 ELSE GetCheckAudioData(g1, d)
    IN  IF g2.pc = "done" THEN g2 ELSE GetSendFile(g2, d)

\* C18: in every state with phase sending_to_esp32 and no handler in
\* flight, whatever interleaving of uploads and clears led to it, has_audio
\* is true and audio_data is present, so that GET /get-audio-stream answers
\* 200 with audio.
C18_SendingMeansAudio ==
    (esp32_data.status = "sending_to_esp32" /\ Quiescent)
    => /\ esp32_data.has_audio
       /\ esp32_data.audio_data # None
       /\ AnswerOn(esp32_data).code = 200

\* C18 as amended: the same, for the states reached while no /clear was in
\* flight at the same time as an upload.
C18_SendingMeansAudioUnlessClearRaced ==
    (esp32_data.status = "sending_to_esp32" /\ Quiescent /\ ~hist.raced)
    => /\ esp32_data.has_audio
       /\ esp32_data.audio_data # None
       /\ AnswerOn(esp32_data).code = 200
       /\ AnswerOn(esp32_data).body = Bytes(esp32_data.audio_data)

\* Two overlapping uploads have succeeded after a /clear had returned, and
\* the phase is sending_to_esp32 with nothing in flight.
C18_Witness ==
    /\ esp32_data.status = "sending_to_esp32" /\ Quiescent /\ ~hist.raced
    /\ clr.pc = "done"
    /\ \A p \in Uploaders : up[p].pc = "done" /\ up[p].resp.code = 200
    /\ Mixed(esp32_data)

\* C19: the text, response and model of a success response are those of the
\* request it answers, whatever other uploads wrote to the record meanwhile.
C19_ResponseIsOwn ==
    \A p \in Uploaders :
        (up[p].pc = "done" /\ up[p].resp.code = 200)
        => /\ up[p].resp.text = up[p].id
           /\ up[p].resp.response = up[p].id
           /\ up[p].resp.model = up[p].selected_model
           /\ up[p].resp.model = (IF up[p].want_strong THEN StrongModel
                                  ELSE FastModel)

\* An upload has returned success while another upload, using the other
\* model, is in flight and has overwritten the transcript and the reply in
\* the record.
C19_Witness ==
    \E p, q \in Uploaders :
        /\ up[p].pc = "done" /\ up[p].resp.code = 200
        /\ InFlight(up[q]) /\ up[q].selected_model # ""
        /\ up[q].selected_model # up[p].resp.model
        /\ TextOf(esp32_data) = up[q].id /\ ResponseOf(esp32_data) = up[q].id
        /\ up[p].resp.text # esp32_data.text

=============================================================================
